---- MODULE Spec2Model ----
(***************************************************************************)
(* ShiftSpeak: the streaming transcription / translation pipeline.         *)
(*                                                                         *)
(*  - MemStorage (server/storage.ts): sessions and transcript entries      *)
(*  - the HTTP routes over it and the WebSocket audio_chunk handler        *)
(*    (server/routes.ts), with the two remote services                     *)
(*  - the client delivery channel (client/src/hooks/useWebSocket.ts)       *)
(*                                                                         *)
(* JavaScript values are encoded as follows.  A string field that is       *)
(* absent (undefined) is the empty string "": every use of such a field in *)
(* the modelled code is a truthiness test or an `x || default`.  A stored  *)
(* null string is NULL.  An optional number is a sequence of length 0      *)
(* (absent / null) or 1 (present).                                         *)
(***************************************************************************)
EXTENDS Integers, Sequences, FiniteSets, TLC

\* ------------------------------------------------------------- bounds
MaxSessions == 1    \* sessions created
MaxEntries  == 3    \* entries posted over HTTP
MaxChunks   == 2    \* audio_chunk messages received
MaxTicks    == 1    \* milliseconds the clock advances
MaxSockets  == 3    \* sockets the client channel creates
MaxPromises == 2    \* promises returned by connect()
MaxSends    == 2    \* sendMessage calls
MaxFrames   == 3    \* frames received from the server
Epoch       == 100  \* the clock's first reading

\* ------------------------------------------------------------- values
NULL    == "<null>"
MISSING == "<missing>"
None    == <<>>
Some(x) == <<x>>

\* randomUUID(): the n-th identifier drawn; all drawn identifiers differ.
SessionKeys == <<"s1", "s2", "s3">>
UUID(n)     == SessionKeys[n]
\* session ids a request can name
KnownKeys   == {UUID(1), UUID(2)}

\* message timestamps are small; Date.now() starts above them
MsgTimestamps == {0, 5}

Statuses     == {"active", "paused", "completed"}

\* ------------------------------------------------------------- state
VARIABLES
  \* MemStorage
  sessions,     \* Map id -> TranscriptionSession
  entries,      \* Map id -> TranscriptionEntry, in insertion order
  now,          \* the clock read by new Date() / Date.now()
  resp,         \* the last HTTP response
  \* WebSocket server
  conn,         \* connection id -> readyState of the server side socket
  chunks,       \* the audio_chunk handler invocations, in arrival order
  outbox,       \* connection id -> messages the server sent on it
  \* client delivery channel
  socks, wsRef, isConnected, isConnecting, timers, timerRef,
  autoReconnect, disconnected,
  sendCalls,    \* the number of sendMessage calls made
  sent,         \* the frames handed to a socket's send, in order
  received,     \* the frames the message events carried, in order
  delivered,    \* the messages passed to the onMessage handler, in order
  promises      \* the promises returned by connect() (promise version)

storeVars   == <<sessions, entries, now, resp>>
serverVars  == <<conn, chunks, outbox>>
channelVars == <<socks, wsRef, isConnected, isConnecting, timers, timerRef,
                 autoReconnect, disconnected>>
wireVars    == <<sendCalls, sent, received, delivered>>
clientVars  == <<channelVars, wireVars, promises>>
vars        == <<storeVars, serverVars, clientVars>>

\* ===================================================== MemStorage ====
Truthy(opt) == opt # None /\ opt[1] # 0
OrNull(str) == IF str = "" THEN NULL ELSE str          \* str || null
OrNone(opt) == IF Truthy(opt) THEN opt ELSE None       \* num || null

\* storage.createSession: the id is a fresh UUID, every absent or falsy
\* field of the insert becomes null.
NewSession(id, ins, t) ==
  [id |-> id, createdAt |-> t, updatedAt |-> t, status |-> OrNull(ins.status)]

\* storage.updateSession's merge { ...session, ...updates, updatedAt: new Date() }
MergeSession(session, updates, t) ==
  [f \in DOMAIN session |->
     IF f = "updatedAt" THEN t
     ELSE IF f \in DOMAIN updates THEN updates[f] ELSE session[f]]

\* storage.addTranscriptionEntry: builds the entry and sets it in the map;
\* the session the entry names is not looked up.
NewEntry(id, ins) ==
  [id |-> id, sessionId |-> ins.sessionId, originalText |-> ins.originalText,
   translatedText |-> OrNull(ins.translatedText), timestamp |-> ins.timestamp,
   confidence |-> OrNone(ins.confidence)]

\* an id derived from the entry instead of drawn
NewEntryId_byTimestamp(es, ins) == ins.timestamp + 1

\* randomUUID() in addTranscriptionEntry: an id no stored entry has
NewEntryId(es, ins) == Len(es) + 1

\* Map.prototype.set: a new key is added last, an existing key keeps its
\* place and takes the new value
MapSet(es, e) ==
  IF \E j \in 1..Len(es) : es[j].id = e.id
  THEN [j \in 1..Len(es) |-> IF es[j].id = e.id THEN e ELSE es[j]]
  ELSE Append(es, e)

addTranscriptionEntry(es, ins) == MapSet(es, NewEntry(NewEntryId(es, ins), ins))

\* Array.prototype.filter
RECURSIVE FilterSession(_, _)
FilterSession(es, sid) ==
  IF es = <<>> THEN <<>>
  ELSE IF Head(es).sessionId = sid
       THEN <<Head(es)>> \o FilterSession(Tail(es), sid)
       ELSE FilterSession(Tail(es), sid)

\* Array.prototype.sort((a, b) => a.timestamp - b.timestamp), a stable sort:
\* an element goes after every element that does not compare greater.
RECURSIVE InsertByTimestamp(_, _)
InsertByTimestamp(sorted, e) ==
  IF sorted = <<>> THEN <<e>>
  ELSE IF Head(sorted).timestamp - e.timestamp <= 0
       THEN <<Head(sorted)>> \o InsertByTimestamp(Tail(sorted), e)
       ELSE <<e>> \o sorted

RECURSIVE SortByTimestamp(_)
SortByTimestamp(es) ==
  IF es = <<>> THEN <<>>
  ELSE InsertByTimestamp(SortByTimestamp(SubSeq(es, 1, Len(es) - 1)), es[Len(es)])

\* getSessionEntries without its sort
getSessionEntries_unsorted(es, sid) == FilterSession(es, sid)

getSessionEntries(es, sid) == SortByTimestamp(FilterSession(es, sid))

\* ---------------------------------------------------- HTTP routes ----
\* a response, with the :id of the request it answers
Response(op, id, code, body) == [op |-> op, id |-> id, code |-> code, body |-> body]

\* statuses a request body can carry: absent, the three of the schema's
\* comment, and any other string (the column is free text)
StatusInputs == Statuses \cup {"", "archived"}

\* POST /api/sessions
CreateSession(ins) ==
  /\ Cardinality(DOMAIN sessions) < MaxSessions
  /\ LET id == UUID(Cardinality(DOMAIN sessions) + 1)
         s  == NewSession(id, ins, now)
     IN /\ sessions' = [k \in DOMAIN sessions \cup {id} |->
                          IF k = id THEN s ELSE sessions[k]]
        /\ resp' = Response("create_session", id, 200, <<s>>)
  /\ UNCHANGED <<entries, now, serverVars, clientVars>>

\* PATCH /api/sessions/:id, the body passed to storage.updateSession as is
PatchSession(id, updates) ==
  /\ IF id \in DOMAIN sessions
     THEN /\ sessions' = [sessions EXCEPT ![id] = MergeSession(@, updates, now)]
          /\ resp' = Response("patch_session", id, 200, <<>>)
     ELSE /\ resp' = Response("patch_session", id, 404, <<>>)
          /\ UNCHANGED sessions
  /\ UNCHANGED <<entries, now, serverVars, clientVars>>

\* POST /api/sessions/:id/entries: the body is validated by the insert
\* schema (originalText and timestamp required), then stored.
PostEntry(id, body) ==
  /\ Len(entries) < MaxEntries
  /\ IF body.originalText = MISSING
     THEN /\ resp' = Response("post_entry", id, 400, <<>>)
          /\ UNCHANGED entries
     ELSE LET ins == [sessionId |-> id, originalText |-> body.originalText,
                      translatedText |-> body.translatedText,
                      timestamp |-> body.timestamp, confidence |-> body.confidence]
          IN /\ entries' = addTranscriptionEntry(entries, ins)
             /\ resp' = Response("post_entry", id, 200, <<NewEntry(NewEntryId(entries, ins), ins)>>)
  /\ UNCHANGED <<sessions, now, serverVars, clientVars>>

\* GET /api/sessions/:id/entries
GetEntries(id) ==
  /\ resp' = Response("get_entries", id, 200, getSessionEntries(entries, id))
  /\ UNCHANGED <<sessions, entries, now, serverVars, clientVars>>

\* ---------------------------------------------------------------------
\* Subtitle export (routes.ts). A string is the sequence of its characters.

Digits == <<"0", "1", "2", "3", "4", "5", "6", "7", "8", "9">>

\* Number.prototype.toString of a non-negative integer
RECURSIVE NumberToString(_)
NumberToString(n) ==
  IF n < 10 THEN <<Digits[n + 1]>>
  ELSE NumberToString(n \div 10) \o <<Digits[(n % 10) + 1]>>

\* String.prototype.padStart(w, '0'): a longer string is left as it is
RECURSIVE padStart(_, _)
padStart(str, w) == IF Len(str) >= w THEN str ELSE padStart(<<"0">> \o str, w)

\* Date.prototype.getUTCHours and the like of new Date(ms), ms >= 0
getUTCHours(ms)        == (ms \div 3600000) % 24
getUTCMinutes(ms)      == (ms \div 60000) % 60
getUTCSeconds(ms)      == (ms \div 1000) % 60
getUTCMilliseconds(ms) == ms % 1000

formatSRTTime(ms) ==
  padStart(NumberToString(getUTCHours(ms)), 2) \o <<":">> \o
  padStart(NumberToString(getUTCMinutes(ms)), 2) \o <<":">> \o
  padStart(NumberToString(getUTCSeconds(ms)), 2) \o <<",">> \o
  padStart(NumberToString(getUTCMilliseconds(ms)), 3)

\* the duration generateSRT assumes for every entry, in ms
AssumedDuration == 3000

\* generateSRT: one block `${index + 1}\n${start} --> ${end}\n${text}\n`
\* per entry, in the order given
generateSRT(es) ==
  [k \in 1..Len(es) |->
     [index |-> k, start |-> formatSRTTime(es[k].timestamp),
      end |-> formatSRTTime(es[k].timestamp + AssumedDuration),
      text |-> es[k].originalText]]

\* GET /api/sessions/:id/export?format=srt
ExportSRT(id) ==
  /\ resp' = Response("export_srt", id, 200, generateSRT(getSessionEntries(entries, id)))
  /\ UNCHANGED <<sessions, entries, now, serverVars, clientVars>>

\* =========================================== transcription service ====
\* mapLanguageCode without the early return for 'auto'
mapLanguageCode_noAuto(language) ==
  IF language = "english" THEN "en"
  ELSE IF language = "spanish" THEN "es"
  ELSE language

\* LemonfoxTranscriptionService.mapLanguageCode: "" stands for undefined.
\* languageMap[language] || language
mapLanguageCode(language) ==
  IF language = "auto" THEN ""
  ELSE IF language = "english" THEN "en"
  ELSE IF language = "spanish" THEN "es"
  ELSE language

\* transcribeAudio, the form it builds: the value of the form's language
\* field, "" when the form has no such field.
FormLanguage(options) ==
  IF options.language # ""
  THEN LET mappedLanguage == mapLanguageCode(options.language)
       IN IF mappedLanguage # "" THEN mappedLanguage ELSE ""
  ELSE ""

\* transcribeAudioStream: { ...options, responseFormat: 'json' }
StreamFormat == "json"

\* the duration, in seconds, in the engine's answer: none, or a number
ApiDurations == {None, Some(2)}

\* a result mapping that copies the duration for every format
ResultDuration_anyFormat(responseFormat, apiDuration) == apiDuration

\* transcribeAudio's result mapping: duration is copied from the answer
\* for 'verbose_json' only
ResultDuration(responseFormat, apiDuration) ==
  IF responseFormat = "verbose_json" THEN apiDuration ELSE None

\* what the engines answer
Texts        == {"hello", ""}
Translations == {"hola", ""}

\* OpenAITranslationService.translateText: result.translation || text
TranslatedText(translation, text) == IF translation # "" THEN translation ELSE text

\* ================================================ WebSocket server ====
\* the connections the server may accept, and the one the single-connection
\* specifications use
ConnIds     == {"c1", "c2"}
StreamConns == {"c1"}

Languages == {"", "auto", "english", "spanish"}
Targets   == {"", "english", "spanish"}
Stamps    == {None} \cup {Some(t) : t \in MsgTimestamps}

Msgs == [sessionId : {""} \cup KnownKeys, language : Languages,
         targetLanguage : Targets, timestamp : Stamps]

\* options.language: data.language || 'auto'
HandlerOptions(data) ==
  [language |-> IF data.language # "" THEN data.language ELSE "auto"]

\* the translation test without the comparison to the source language
NeedsTranslation_anyTarget(data) == data.targetLanguage # ""

\* a test that takes "auto" for the default source language
NeedsTranslation_autoResolved(data) ==
  /\ data.targetLanguage # ""
  /\ data.targetLanguage # (IF data.language \in {"", "auto"} THEN "english" ELSE data.language)

\* data.targetLanguage && data.targetLanguage !== (data.language || 'english')
NeedsTranslation(data) ==
  /\ data.targetLanguage # ""
  /\ data.targetLanguage # (IF data.language # "" THEN data.language ELSE "english")

\* data.timestamp || Date.now()
TimestampOr(data, t) == IF Truthy(data.timestamp) THEN data.timestamp[1] ELSE t

\* Math.round((result.duration || 1) * 90)
Confidence(duration) == (IF Truthy(duration) THEN duration[1] ELSE 1) * 90

ResultMsg(i, text, translatedText, t) ==
  [type |-> "transcription_result", chunk |-> i, originalText |-> text,
   translatedText |-> translatedText, timestamp |-> t]

ErrorMsg(i) == [type |-> "error", chunk |-> i]

\* ws.send without the readyState test
SendIfOpen_unguarded(c, m) ==
  outbox' = [outbox EXCEPT ![c] = Append(@, m)]

\* a send that overtakes the messages already written to the connection
SendIfOpen_overtaking(c, m) ==
  outbox' = IF conn[c] = "OPEN" THEN [outbox EXCEPT ![c] = <<m>> \o @] ELSE outbox

\* ws.send guarded by ws.readyState === WebSocket.OPEN
SendIfOpen(c, m) ==
  outbox' = IF conn[c] = "OPEN" THEN [outbox EXCEPT ![c] = Append(@, m)] ELSE outbox

\* wss.on('connection')
Accept(c) ==
  /\ conn[c] = "NONE"
  /\ conn' = [conn EXCEPT ![c] = "OPEN"]
  /\ UNCHANGED <<chunks, outbox, storeVars, clientVars>>

\* ws.on('close'): the client went away
ClientGone(c) ==
  /\ conn[c] = "OPEN"
  /\ conn' = [conn EXCEPT ![c] = "CLOSED"]
  /\ UNCHANGED <<chunks, outbox, storeVars, clientVars>>

\* ws.on('message') for an audio_chunk, up to the await of the transcription
\* request: the options are built and the form is sent.
ReceiveChunk(c, data) ==
  /\ conn[c] = "OPEN"
  /\ Len(chunks) < MaxChunks
  /\ chunks' = Append(chunks,
       [conn |-> c, data |-> data, pc |-> "transcribing",
        formLanguage |-> FormLanguage(HandlerOptions(data)),
        stt |-> "pending", text |-> "", translation |-> "none",
        translatedText |-> "", apiDuration |-> None, duration |-> None])
  /\ UNCHANGED <<conn, outbox, storeVars, clientVars>>

\* a handler that sends the result without storing the entry
StoreAndSend_sendOnly(i, text, translatedText, d) ==
  /\ UNCHANGED entries
  /\ now' = now + d
  /\ SendIfOpen(chunks[i].conn,
               ResultMsg(i, text, translatedText, TimestampOr(chunks[i].data, now')))

\* The rest of the try block once translatedText is known: the entry is
\* stored when the message names a session, then the result is sent.  The
\* await of addTranscriptionEntry resumes in a microtask, so no event comes
\* between the store and the send; the clock may have advanced (d).
StoreAndSend(i, text, translatedText, d) ==
  LET data == chunks[i].data
  IN /\ IF data.sessionId # ""
        THEN entries' = addTranscriptionEntry(entries,
               [sessionId |-> data.sessionId, originalText |-> text,
                translatedText |-> translatedText,
                timestamp |-> TimestampOr(data, now),
                confidence |-> Some(Confidence(chunks'[i].duration))])
        ELSE UNCHANGED entries
     /\ now' = now + d
     /\ SendIfOpen(chunks[i].conn, ResultMsg(i, text, translatedText, TimestampOr(data, now')))

\* the clock steps the handler can see between its two reads of Date.now()
Drift(i) ==
  IF chunks[i].data.sessionId # "" /\ now < Epoch + MaxTicks THEN {0, 1} ELSE {0}

\* a catch block that only logs
SendError_silent(i) == UNCHANGED outbox

\* the catch block
SendError(i) == SendIfOpen(chunks[i].conn, ErrorMsg(i))

\* a handler that takes up a chunk only when the chunks before it are done
TranscribeOk_inTurn(i, text, apiDuration) ==
  /\ chunks[i].pc = "transcribing"
  /\ \A j \in 1..(i - 1) : chunks[j].pc = "done"
  /\ IF NeedsTranslation(chunks[i].data)
     THEN /\ chunks' = [chunks EXCEPT ![i].pc = "translating", ![i].stt = "ok",
                                      ![i].text = text, ![i].translation = "pending",
                                      ![i].apiDuration = apiDuration,
                                      ![i].duration = ResultDuration(StreamFormat, apiDuration)]
          /\ UNCHANGED <<outbox, entries, now>>
     ELSE /\ chunks' = [chunks EXCEPT ![i].pc = "done", ![i].stt = "ok", ![i].text = text,
                                      ![i].apiDuration = apiDuration,
                                      ![i].duration = ResultDuration(StreamFormat, apiDuration)]
          /\ \E d \in Drift(i) : StoreAndSend(i, text, "", d)
  /\ UNCHANGED <<conn, sessions, resp, clientVars>>

\* the transcription request returns a text
TranscribeOk(i, text, apiDuration) ==
  /\ chunks[i].pc = "transcribing"
  /\ IF NeedsTranslation(chunks[i].data)
     THEN /\ chunks' = [chunks EXCEPT ![i].pc = "translating", ![i].stt = "ok",
                                      ![i].text = text, ![i].translation = "pending",
                                      ![i].apiDuration = apiDuration,
                                      ![i].duration = ResultDuration(StreamFormat, apiDuration)]
          /\ UNCHANGED <<outbox, entries, now>>
     ELSE /\ chunks' = [chunks EXCEPT ![i].pc = "done", ![i].stt = "ok", ![i].text = text,
                                      ![i].apiDuration = apiDuration,
                                      ![i].duration = ResultDuration(StreamFormat, apiDuration)]
          /\ \E d \in Drift(i) : StoreAndSend(i, text, "", d)
  /\ UNCHANGED <<conn, sessions, resp, clientVars>>

\* the transcription request fails: transcribeAudio throws
TranscribeFail(i) ==
  /\ chunks[i].pc = "transcribing"
  /\ chunks' = [chunks EXCEPT ![i].pc = "done", ![i].stt = "failed"]
  /\ SendError(i)
  /\ UNCHANGED <<conn, storeVars, clientVars>>

\* the translation request returns
TranslateOk(i, translation) ==
  /\ chunks[i].pc = "translating"
  /\ LET tt == TranslatedText(translation, chunks[i].text)
     IN /\ chunks' = [chunks EXCEPT ![i].pc = "done", ![i].translation = "ok",
                                    ![i].translatedText = tt]
        /\ \E d \in Drift(i) : StoreAndSend(i, chunks[i].text, tt, d)
  /\ UNCHANGED <<conn, sessions, resp, clientVars>>

\* a translation failure after which the transcription is stored all the same
TranslateFail_storing(i) ==
  /\ chunks[i].pc = "translating"
  /\ chunks' = [chunks EXCEPT ![i].pc = "done", ![i].translation = "failed"]
  /\ SendError(i)
  /\ entries' = addTranscriptionEntry(entries,
        [sessionId |-> chunks[i].data.sessionId, originalText |-> chunks[i].text,
         translatedText |-> "", timestamp |-> TimestampOr(chunks[i].data, now),
         confidence |-> None])
  /\ UNCHANGED <<conn, sessions, now, resp, clientVars>>

\* the translation request fails: translateText throws
TranslateFail(i) ==
  /\ chunks[i].pc = "translating"
  /\ chunks' = [chunks EXCEPT ![i].pc = "done", ![i].translation = "failed"]
  /\ SendError(i)
  /\ UNCHANGED <<conn, storeVars, clientVars>>

\* ======================================== client delivery channel ====
\* The browser's WebSocket: readyState as the page sees it, and the close
\* code of the close event that is queued for it (None: no event queued).
\* The close event is delivered in a task of its own; close() on a socket
\* that is still CONNECTING fails the connection (code 1006), on an OPEN
\* socket it starts the closing handshake, and otherwise does nothing.
NormalClosure == 1000
\* the codes of a closure the page did not ask for: the connection was lost
\* or never made (1006), the server is going away (1001)
LostCodes == {1006, 1001}

NewSocket == [rs |-> "CONNECTING", code |-> None, byTimer |-> FALSE]

Close(sock, code) ==
  IF sock.rs = "CONNECTING"
  THEN [sock EXCEPT !.rs = "CLOSING",
                    !.code = IF @ = None THEN Some(1006) ELSE @]
  ELSE IF sock.rs = "OPEN"
  THEN [sock EXCEPT !.rs = "CLOSING", !.code = IF @ = None THEN Some(code) ELSE @]
  ELSE sock

\* wsRef.current?.readyState
RefState == IF wsRef = 0 THEN "" ELSE socks[wsRef].rs

\* connect(): returns early on an OPEN or CONNECTING socket, else creates one
ConnectBody(byTimer) ==
  IF RefState \in {"OPEN", "CONNECTING"}
  THEN UNCHANGED <<socks, wsRef, isConnecting>>
  ELSE /\ Len(socks) < MaxSockets
       /\ isConnecting' = TRUE
       /\ socks' = Append(socks, [NewSocket EXCEPT !.byTimer = byTimer])
       /\ wsRef' = Len(socks) + 1

\* resolve() or reject() of the promise whose executor created socket i;
\* a promise that is settled stays as it is
Settle(ps, i, outcome) ==
  [p \in 1..Len(ps) |->
     IF ps[p].kind = "own" /\ ps[p].sock = i /\ ps[p].state = "pending"
     THEN [ps[p] EXCEPT !.state = outcome] ELSE ps[p]]

\* the page calls connect()
Connect ==
  /\ ConnectBody(FALSE)
  /\ disconnected' = FALSE
  /\ UNCHANGED <<isConnected, timers, timerRef, autoReconnect, storeVars, serverVars, wireVars,
                 promises>>

\* the reconnect timer set by onclose fires
TimerFire(t) ==
  /\ timers[t] = "pending"
  /\ timers' = [timers EXCEPT ![t] = "fired"]
  /\ ConnectBody(TRUE)
  /\ UNCHANGED <<isConnected, timerRef, autoReconnect, disconnected, storeVars, serverVars,
                 wireVars, promises>>

\* ws.onopen
SockOpen(i) ==
  /\ socks[i].rs = "CONNECTING" /\ socks[i].code = None
  /\ socks' = [socks EXCEPT ![i].rs = "OPEN"]
  /\ isConnected' = TRUE
  /\ isConnecting' = FALSE
  /\ promises' = Settle(promises, i, "resolved")
  /\ UNCHANGED <<wsRef, timers, timerRef, autoReconnect, disconnected, storeVars, serverVars, wireVars>>

\* the connection is lost, or the server closes it: the close event is queued
NetClose(i, code) ==
  /\ socks[i].code = None
  /\ \/ socks[i].rs \in {"CONNECTING", "OPEN"} /\ code = 1006
     \/ socks[i].rs = "OPEN" /\ code \in {NormalClosure} \cup LostCodes
  /\ socks' = [socks EXCEPT ![i].code = Some(code)]
  /\ UNCHANGED <<wsRef, isConnected, isConnecting, timers, timerRef, autoReconnect,
                 disconnected, storeVars, serverVars, wireVars, promises>>

\* an onclose that schedules a reconnect whatever the close code, as the
\* first version of the hook did
OnClose_anyCode(i) ==
  /\ socks[i].rs # "CLOSED" /\ socks[i].code # None
  /\ socks' = [socks EXCEPT ![i].rs = "CLOSED"]
  /\ isConnected' = FALSE
  /\ isConnecting' = FALSE
  /\ wsRef' = 0
  /\ IF autoReconnect
     THEN /\ timers' = Append(timers, "pending")
          /\ timerRef' = Len(timers) + 1
     ELSE UNCHANGED <<timers, timerRef>>
  /\ promises' = Settle(promises, i, "rejected")
  /\ UNCHANGED <<autoReconnect, disconnected, storeVars, serverVars, wireVars>>

\* ws.onclose (after ws.onerror when the connection failed)
OnClose(i) ==
  /\ socks[i].rs # "CLOSED" /\ socks[i].code # None
  /\ socks' = [socks EXCEPT ![i].rs = "CLOSED"]
  /\ isConnected' = FALSE
  /\ isConnecting' = FALSE
  /\ wsRef' = 0
  /\ IF autoReconnect /\ socks[i].code[1] # NormalClosure
     THEN /\ timers' = Append(timers, "pending")
          /\ timerRef' = Len(timers) + 1
     ELSE UNCHANGED <<timers, timerRef>>
  /\ promises' = Settle(promises, i, "rejected")
  /\ UNCHANGED <<autoReconnect, disconnected, storeVars, serverVars, wireVars>>

\* connect() of the promise version: the executor resolves at once on an
\* OPEN socket, starts checkConnection on a CONNECTING one (its first run
\* finds the socket CONNECTING and re-arms), and otherwise creates a socket
\* whose onopen, onerror and 5 s timeout settle the promise
NewPromise ==
  IF RefState = "OPEN"
  THEN [kind |-> "open", sock |-> wsRef, state |-> "resolved", timeout |-> "none"]
  ELSE IF RefState = "CONNECTING"
  THEN [kind |-> "poll", sock |-> 0, state |-> "pending", timeout |-> "none"]
  ELSE [kind |-> "own", sock |-> Len(socks) + 1, state |-> "pending", timeout |-> "armed"]

\* the page calls connect() and keeps the promise
ConnectPromise ==
  /\ Len(promises) < MaxPromises
  /\ promises' = Append(promises, NewPromise)
  /\ ConnectBody(FALSE)
  /\ disconnected' = FALSE
  /\ UNCHANGED <<isConnected, timers, timerRef, autoReconnect, storeVars, serverVars, wireVars>>

\* the reconnect timer fires: connect().catch(() => {})
TimerFirePromise(t) ==
  /\ timers[t] = "pending"
  /\ Len(promises) < MaxPromises
  /\ timers' = [timers EXCEPT ![t] = "fired"]
  /\ promises' = Append(promises, NewPromise)
  /\ ConnectBody(TRUE)
  /\ UNCHANGED <<isConnected, timerRef, autoReconnect, disconnected, storeVars, serverVars,
                 wireVars>>

\* a checkConnection run, 100 ms after the last: resolve on OPEN, reject on
\* CLOSED, and re-arm otherwise
checkConnection(q) ==
  IF RefState = "OPEN" THEN [q EXCEPT !.state = "resolved"]
  ELSE IF RefState = "CLOSED" THEN [q EXCEPT !.state = "rejected"]
  ELSE q

Poll(p) ==
  /\ promises[p].kind = "poll" /\ promises[p].state = "pending"
  /\ promises' = [promises EXCEPT ![p] = checkConnection(@)]
  /\ UNCHANGED <<channelVars, storeVars, serverVars, wireVars>>

\* the connection timeout of promise p fires, 5 s after its socket was made
ConnTimeout(p) ==
  /\ promises[p].timeout = "armed"
  /\ LET i == promises[p].sock
     IN IF socks[i].rs = "CONNECTING"
        THEN /\ socks' = [socks EXCEPT ![i] = Close(@, 1006)]
             /\ promises' = [promises EXCEPT ![p].timeout = "fired",
                                              ![p].state = IF @ = "pending" THEN "rejected" ELSE @]
        ELSE /\ promises' = [promises EXCEPT ![p].timeout = "fired"]
             /\ UNCHANGED socks
  /\ UNCHANGED <<wsRef, isConnected, isConnecting, timers, timerRef, autoReconnect,
                 disconnected, storeVars, serverVars, wireVars>>

\* disconnect()
Disconnect ==
  /\ IF timerRef # 0
     THEN /\ timers' = [timers EXCEPT ![timerRef] = IF @ = "pending" THEN "cleared" ELSE @]
          /\ timerRef' = 0
     ELSE UNCHANGED <<timers, timerRef>>
  /\ IF wsRef # 0
     THEN /\ socks' = [socks EXCEPT ![wsRef] = Close(@, NormalClosure)]
          /\ wsRef' = 0
     ELSE UNCHANGED <<socks, wsRef>>
  /\ isConnected' = FALSE
  /\ isConnecting' = FALSE
  /\ disconnected' = TRUE
  /\ UNCHANGED <<autoReconnect, storeVars, serverVars, wireVars, promises>>

\* ---------------------------------------------------------------------
\* Messages on the client channel (useWebSocket.ts sendMessage, onmessage).

OutMessages == {[type |-> "audio_chunk"]}

\* JSON.stringify of a message
JSONstringify(m) ==
  CASE m.type = "audio_chunk" -> "{\"type\":\"audio_chunk\"}"
    [] m.type = "transcription_result" -> "{\"type\":\"transcription_result\"}"
    [] m.type = "error" -> "{\"type\":\"error\"}"

\* the frames a server can send: the two messages of the protocol and a
\* text that is not JSON
Frames == {"{\"type\":\"transcription_result\"}", "{\"type\":\"error\"}", "hello"}

\* JSON.parse: the value, or none when it throws a SyntaxError
JSONparse(frame) ==
  CASE frame = "{\"type\":\"audio_chunk\"}" -> Some([type |-> "audio_chunk"])
    [] frame = "{\"type\":\"transcription_result\"}" -> Some([type |-> "transcription_result"])
    [] frame = "{\"type\":\"error\"}" -> Some([type |-> "error"])
    [] OTHER -> None

\* a test of the reference alone, not of the socket's state
SocketIsOpen_anyRef == wsRef # 0

\* wsRef.current?.readyState === WebSocket.OPEN
SocketIsOpen == RefState = "OPEN"

\* sendMessage(message)
SendMessage(m) ==
  /\ sendCalls < MaxSends
  /\ sendCalls' = sendCalls + 1
  /\ sent' = IF SocketIsOpen
             THEN Append(sent, [sock |-> wsRef, data |-> JSONstringify(m)])
             ELSE sent
  /\ UNCHANGED <<channelVars, received, delivered, promises, storeVars, serverVars>>

\* a handler that passes the frame on without decoding it
onmessage_noParse(ds, frame) == Append(ds, [type |-> frame])

\* ws.onmessage: try { onMessage(JSON.parse(event.data)) } catch { log }
onmessage(ds, frame) ==
  IF JSONparse(frame) # None THEN Append(ds, JSONparse(frame)[1]) ELSE ds

\* a message event on socket i
OnMessage(i, frame) ==
  /\ socks[i].rs = "OPEN"
  /\ Len(received) < MaxFrames
  /\ received' = Append(received, frame)
  /\ delivered' = onmessage(delivered, frame)
  /\ UNCHANGED <<channelVars, sendCalls, sent, promises, storeVars, serverVars>>

\* ================================================= specifications ====
StoreInit ==
  /\ sessions = <<>>
  /\ entries = <<>>
  /\ now = Epoch
  /\ resp = Response("none", "", 200, <<>>)

ServerInit ==
  /\ conn = [c \in ConnIds |-> "NONE"]
  /\ chunks = <<>>
  /\ outbox = [c \in ConnIds |-> <<>>]

\* useWebSocket(options): no socket, no timer
HookInit(options) ==
  /\ socks = <<>>
  /\ wsRef = 0
  /\ isConnected = FALSE
  /\ isConnecting = FALSE
  /\ timers = <<>>
  /\ timerRef = 0
  /\ autoReconnect = options.autoReconnect
  /\ disconnected = FALSE
  /\ sendCalls = 0
  /\ sent = <<>>
  /\ received = <<>>
  /\ delivered = <<>>
  /\ promises = <<>>

Init == StoreInit /\ ServerInit /\ HookInit([autoReconnect |-> TRUE])

\* Spec: overlapping audio_chunk pipelines on a connection.  A message either
\* names the first session or none and either asks for a translation or not.
StreamMsgs == [sessionId : {"", UUID(1)}, language : {"auto"},
               targetLanguage : {"", "spanish"}, timestamp : {Some(5)}]

Next ==
  \/ CreateSession([status |-> "active"])
  \/ \E id \in KnownKeys : PatchSession(id, [status |-> "completed"])
  \/ \E c \in StreamConns : Accept(c)
  \/ \E c \in StreamConns : ClientGone(c)
  \/ \E c \in StreamConns, data \in StreamMsgs : ReceiveChunk(c, data)
  \/ \E i \in 1..Len(chunks) : TranscribeOk(i, "hello", None)
  \/ \E i \in 1..Len(chunks) : TranscribeFail(i)
  \/ \E i \in 1..Len(chunks) : TranslateOk(i, "hola")
  \/ \E i \in 1..Len(chunks) : TranslateFail(i)

Spec == Init /\ [][Next]_vars

\* ChunkSpec: one audio_chunk through the handler, over every message and
\* every answer of the two engines.
ChunkNext ==
  \/ CreateSession([status |-> "active"])
  \/ \E id \in KnownKeys : PatchSession(id, [status |-> "completed"])
  \/ \E c \in StreamConns : Accept(c)
  \/ \E c \in StreamConns : ClientGone(c)
  \/ \E c \in StreamConns, data \in Msgs : chunks = <<>> /\ ReceiveChunk(c, data)
  \/ \E i \in 1..Len(chunks), text \in Texts, dur \in ApiDurations : TranscribeOk(i, text, dur)
  \/ \E i \in 1..Len(chunks) : TranscribeFail(i)
  \/ \E i \in 1..Len(chunks), tr \in Translations : TranslateOk(i, tr)
  \/ \E i \in 1..Len(chunks) : TranslateFail(i)

ChunkSpec == Init /\ [][ChunkNext]_vars

\* StoreSpec: the store behind its HTTP routes.
Bodies == [originalText : {"hi", MISSING}, translatedText : {""},
           timestamp : {0, 1, 2}, confidence : {None}]

StoreNext ==
  \/ \E st \in StatusInputs : CreateSession([status |-> st])
  \/ \E id \in KnownKeys, st \in Statuses : PatchSession(id, [status |-> st])
  \/ \E id \in KnownKeys, b \in Bodies : PostEntry(id, b)
  \/ \E id \in KnownKeys : GetEntries(id)

StoreSpec == Init /\ [][StoreNext]_vars

\* OverlapSpec: chunks on two connections. The gateway calls of every
\* chunk but the first return when they can; nothing says that the calls
\* of the first chunk ever return, nor that they succeed.
OverlapMsgs == [sessionId : {""}, language : {"auto"},
                targetLanguage : {"", "spanish"}, timestamp : {Some(5)}]

OverlapNext ==
  \/ \E c \in ConnIds : Accept(c)
  \/ \E c \in ConnIds : ClientGone(c)
  \/ \E c \in ConnIds, data \in OverlapMsgs : ReceiveChunk(c, data)
  \/ \E i \in 1..Len(chunks) : TranscribeOk(i, "hello", None)
  \/ \E i \in 1..Len(chunks) : TranscribeFail(i)
  \/ \E i \in 1..Len(chunks) : TranslateOk(i, "hola")
  \/ \E i \in 1..Len(chunks) : TranslateFail(i)

\* the gateway call chunk i waits for returns
GatewayReturns(i) ==
  /\ i <= Len(chunks)
  /\ TranscribeOk(i, "hello", None) \/ TranslateOk(i, "hola")

OverlapFairness == \A i \in 2..MaxChunks : WF_vars(GatewayReturns(i))

OverlapSpec == Init /\ [][OverlapNext]_vars /\ OverlapFairness

\* PatchSpec: sessions under PATCH bodies of every shape: the route hands
\* req.body to updateSession as it is, so a body can name any field.
PatchBodies ==
  {[status |-> st] : st \in Statuses} \cup
  {[id |-> k] : k \in {UUID(2), UUID(3)}} \cup
  {[createdAt |-> t] : t \in {0, 1}} \cup
  {[id |-> UUID(2), createdAt |-> 0]}

PatchNext ==
  \/ \E st \in StatusInputs : CreateSession([status |-> st])
  \/ \E id \in KnownKeys, u \in PatchBodies : PatchSession(id, u)
  \/ \E id \in KnownKeys : GetEntries(id)

PatchSpec == Init /\ [][PatchNext]_vars

\* ExportSpec: entries posted to a session and exported as subtitles;
\* the last timestamp lies beyond 24 hours, as every Date.now() stamp of
\* the capture does.
SrtStamps == {0, 5000, 90000000}

SrtBodies == [originalText : {"hi"}, translatedText : {""},
              timestamp : SrtStamps, confidence : {None}]

ExportNext ==
  \/ CreateSession([status |-> "active"])
  \/ \E id \in KnownKeys, b \in SrtBodies : PostEntry(id, b)
  \/ \E id \in KnownKeys : ExportSRT(id)

ExportSpec == Init /\ [][ExportNext]_vars

\* ChannelSpec: the client channel against the browser's socket events.
ChannelInit ==
  StoreInit /\ ServerInit /\ \E b \in BOOLEAN : HookInit([autoReconnect |-> b])

ChannelNext ==
  \/ Connect
  \/ Disconnect
  \/ \E t \in 1..Len(timers) : TimerFire(t)
  \/ \E i \in 1..Len(socks) : SockOpen(i)
  \/ \E i \in 1..Len(socks), code \in {NormalClosure} \cup LostCodes : NetClose(i, code)
  \/ \E i \in 1..Len(socks) : OnClose(i)

ChannelSpec == ChannelInit /\ [][ChannelNext]_vars

\* SendSpec and InboundSpec: messages through the channel as the page
\* configures it (autoReconnect: false), outbound and inbound.
WireInit == StoreInit /\ ServerInit /\ HookInit([autoReconnect |-> FALSE])

SendNext ==
  \/ Connect
  \/ Disconnect
  \/ \E i \in 1..Len(socks) : SockOpen(i)
  \/ \E i \in 1..Len(socks), code \in {NormalClosure} \cup LostCodes : NetClose(i, code)
  \/ \E i \in 1..Len(socks) : OnClose(i)
  \/ \E m \in OutMessages : SendMessage(m)

SendSpec == WireInit /\ [][SendNext]_vars

InboundNext ==
  \/ Connect
  \/ Disconnect
  \/ \E i \in 1..Len(socks) : SockOpen(i)
  \/ \E i \in 1..Len(socks) : NetClose(i, 1006)
  \/ \E i \in 1..Len(socks) : OnClose(i)
  \/ \E i \in 1..Len(socks), frame \in Frames : OnMessage(i, frame)

InboundSpec == WireInit /\ [][InboundNext]_vars

\* PromiseSpec: the promise version of the hook. Timers fire and queued
\* events are delivered: the reconnect timer, the 100 ms poll, the 5 s
\* connection timeout and the close event each happen once they are due.
\* Nothing obliges the page to call connect() or disconnect(), nor the
\* network to open a socket.
PromiseInit ==
  StoreInit /\ ServerInit /\ \E b \in BOOLEAN : HookInit([autoReconnect |-> b])

PromiseNext ==
  \/ ConnectPromise
  \/ Disconnect
  \/ \E t \in 1..Len(timers) : TimerFirePromise(t)
  \/ \E i \in 1..Len(socks) : SockOpen(i)
  \/ \E i \in 1..Len(socks), code \in {NormalClosure} \cup LostCodes : NetClose(i, code)
  \/ \E i \in 1..Len(socks) : OnClose(i)
  \/ \E p \in 1..Len(promises) : Poll(p)
  \/ \E p \in 1..Len(promises) : ConnTimeout(p)

PromiseFairness ==
  /\ \A i \in 1..MaxSockets : WF_vars(i <= Len(socks) /\ OnClose(i))
  /\ \A t \in 1..MaxSockets : WF_vars(t <= Len(timers) /\ TimerFirePromise(t))
  /\ \A p \in 1..MaxPromises : WF_vars(p <= Len(promises) /\ Poll(p))
  /\ \A p \in 1..MaxPromises : WF_vars(p <= Len(promises) /\ ConnTimeout(p))

PromiseFairSpec == PromiseInit /\ [][PromiseNext]_vars /\ PromiseFairness

\* ========================================================= claims ====
\* the messages the server sent for chunk i, in order
SentFor(i) == SelectSeq(outbox[chunks[i].conn], LAMBDA m : m.chunk = i)

Done(i)   == chunks[i].pc = "done"
StillOpen(i) == conn[chunks[i].conn] = "OPEN"

\* C1: after disconnect(), and until the page calls connect() again, the
\* channel creates no socket (the reconnect timer is the only other caller
\* of connect()).
C1_NoReconnectAfterDisconnect ==
  [][(disconnected /\ disconnected') => Len(socks') = Len(socks)]_vars

\* C2: a chunk whose transcription failed gets exactly one message, an
\* 'error'; no handler step closes the connection; and every chunk whose
\* transcription (and translation, when made) succeeded gets its
\* transcription_result, also after an earlier chunk failed.  The messages
\* are those of a connection that is still open.
C2_OneErrorPerFailure ==
  \A i \in 1..Len(chunks) :
    (Done(i) /\ StillOpen(i)) =>
       /\ chunks[i].stt = "failed" => SentFor(i) = <<ErrorMsg(i)>>
       /\ (chunks[i].stt = "ok" /\ chunks[i].translation \in {"none", "ok"}) =>
            /\ Len(SentFor(i)) = 1
            /\ SentFor(i)[1].type = "transcription_result"
            /\ SentFor(i)[1].originalText = chunks[i].text

C2_HandlerKeepsConnection ==
  [][\A c \in ConnIds : (conn[c] = "OPEN" /\ conn'[c] # "OPEN") => chunks' = chunks]_vars

C2_FailureIsolated == []C2_OneErrorPerFailure /\ C2_HandlerKeepsConnection

\* C2 witness: on an open connection the first chunk failed and a later one
\* succeeded: an error for the first, then a result for the second.
C2_Witness ==
  /\ Len(chunks) = 2
  /\ chunks[1].conn = chunks[2].conn
  /\ StillOpen(1)
  /\ chunks[1].stt = "failed" /\ chunks[2].stt = "ok" /\ Done(2)
  /\ Len(outbox[chunks[1].conn]) = 2
  /\ outbox[chunks[1].conn][1] = ErrorMsg(1)
  /\ outbox[chunks[1].conn][2].type = "transcription_result"
  /\ outbox[chunks[1].conn][2].chunk = 2

\* C3: a chunk whose transcription succeeded and whose translation failed
\* still gets a transcription_result with its text and an empty
\* translatedText.
C3_PartialSuccess ==
  \A i \in 1..Len(chunks) :
    (Done(i) /\ StillOpen(i) /\ chunks[i].stt = "ok" /\ chunks[i].translation = "failed") =>
       \E k \in 1..Len(SentFor(i)) :
          /\ SentFor(i)[k].type = "transcription_result"
          /\ SentFor(i)[k].originalText = chunks[i].text
          /\ SentFor(i)[k].translatedText = ""

\* C4: a chunk whose language equals its targetLanguage never reaches the
\* translation service, and its result carries an empty translatedText.
C4_SameLanguageNoTranslation ==
  \A i \in 1..Len(chunks) :
    chunks[i].data.language = chunks[i].data.targetLanguage =>
       /\ chunks[i].translation = "none"
       /\ \A k \in 1..Len(SentFor(i)) :
            SentFor(i)[k].type = "transcription_result" => SentFor(i)[k].translatedText = ""

\* C4 witness: a result was sent for a chunk from english to english.
C4_Witness ==
  \E i \in 1..Len(chunks) :
    /\ chunks[i].data.language = "english" /\ chunks[i].data.targetLanguage = "english"
    /\ Done(i) /\ chunks[i].text # ""
    /\ Len(SentFor(i)) = 1 /\ SentFor(i)[1].type = "transcription_result"

\* C5: for a source language of "auto", or none, the form sent to the
\* engine has no language field; no form ever carries the value "auto".
C5_AutoOmitsLanguage ==
  \A i \in 1..Len(chunks) :
    /\ chunks[i].data.language \in {"", "auto"} => chunks[i].formLanguage = ""
    /\ chunks[i].formLanguage # "auto"

\* C5 witness: the request of a chunk with language "auto" went out with no
\* language field.
C5_Witness ==
  \E i \in 1..Len(chunks) :
    chunks[i].data.language = "auto" /\ chunks[i].formLanguage = ""

\* C6: the body of a GET entries response holds exactly the entries of the
\* session asked for, in ascending order of timestamp.
Ascending(es) == \A j, k \in 1..Len(es) : j < k => es[j].timestamp <= es[k].timestamp

OfSession(id) == {j \in 1..Len(entries) : entries[j].sessionId = id}

C6_ListSortedExact ==
  resp.op = "get_entries" =>
     /\ Ascending(resp.body)
     /\ Len(resp.body) = Cardinality(OfSession(resp.id))
     /\ {resp.body[k] : k \in 1..Len(resp.body)} = {entries[j] : j \in OfSession(resp.id)}

\* C6 witness: three entries of one session appended in the order 2, 0, 1
\* and read back.
C6_Witness ==
  /\ resp.op = "get_entries"
  /\ Len(resp.body) = 3
  /\ Len(entries) = 3
  /\ entries[1].timestamp = 2 /\ entries[2].timestamp = 0 /\ entries[3].timestamp = 1

\* C7: no entry names a session that does not exist, and a POST entries
\* request for such a session is not answered 200.
C7_UnknownSessionRejected ==
  /\ \A j \in 1..Len(entries) : entries[j].sessionId \in DOMAIN sessions
  /\ (resp.op = "post_entry" /\ resp.id \notin DOMAIN sessions) => resp.code # 200

\* C8: no step adds an entry to a session whose status is 'completed'.
C8_NoAppendAfterCompleted ==
  [][\A id \in DOMAIN sessions :
       sessions[id].status = "completed" =>
         {j \in 1..Len(entries') : entries'[j].sessionId = id} = OfSession(id)]_vars

\* C9: the status of a session changes only active -> paused,
\* paused -> active or active -> completed.
AllowedTransitions ==
  {<<"active", "paused">>, <<"paused", "active">>, <<"active", "completed">>}

C9_StatusTransitions ==
  [][\A id \in DOMAIN sessions :
       sessions'[id].status # sessions[id].status =>
         <<sessions[id].status, sessions'[id].status>> \in AllowedTransitions]_vars

\* C10: a chunk naming a session, with a timestamp t, language "auto" and another
\* target, transcribed to T and translated to R, gets exactly one
\* transcription_result {T, R, t} and exactly one entry {T, R, t} in its
\* session (an empty R may be stored as null).
C10_EndToEnd ==
  \A i \in 1..Len(chunks) :
    LET d == chunks[i].data
    IN (/\ Done(i) /\ StillOpen(i)
        /\ d.sessionId \in DOMAIN sessions /\ d.timestamp # None
        /\ d.language = "auto" /\ d.targetLanguage \notin {"", "auto"}
        /\ chunks[i].stt = "ok" /\ chunks[i].translation = "ok") =>
         /\ SentFor(i) = <<ResultMsg(i, chunks[i].text, chunks[i].translatedText, d.timestamp[1])>>
         /\ Len(entries) = 1
         /\ entries[1].sessionId = d.sessionId
         /\ entries[1].originalText = chunks[i].text
         /\ entries[1].translatedText \in {chunks[i].translatedText, NULL}
         /\ entries[1].translatedText = NULL => chunks[i].translatedText = ""
         /\ entries[1].timestamp = d.timestamp[1]

\* C12: with overlapping chunk pipelines, every chunk that named a session
\* and succeeded has its own entry: a session holds as many entries as
\* chunks stored into it, and no two entries share an id.
StoredChunks(id) ==
  {i \in 1..Len(chunks) :
     /\ Done(i) /\ chunks[i].data.sessionId = id
     /\ chunks[i].stt = "ok" /\ chunks[i].translation \in {"none", "ok"}}

C12_NoLostAppend ==
  /\ \A id \in KnownKeys : Cardinality(OfSession(id)) = Cardinality(StoredChunks(id))
  /\ \A j, k \in 1..Len(entries) : j # k => entries[j].id # entries[k].id

\* C12 witness: two pipelines of one session overlapped: the chunk that
\* arrived first (with a translation to wait for) stored its entry second.
C12_Witness ==
  /\ Len(chunks) = 2 /\ Len(entries) = 2
  /\ chunks[1].data.sessionId = chunks[2].data.sessionId
  /\ chunks[1].data.targetLanguage = "spanish" /\ chunks[2].data.targetLanguage = ""
  /\ entries[1].translatedText = NULL /\ entries[2].translatedText = "hola"

\* C16: a chunk gets at most one outbound message (so never a result and
\* an error), none before its pipeline has finished, and no step writes to
\* a connection that is not open: a pipeline that finishes after the close
\* sends nothing.
C16_AtMostOne ==
  \A i \in 1..Len(chunks) :
    /\ Len(SentFor(i)) <= 1
    /\ ~Done(i) => SentFor(i) = <<>>

C16_NoSendWhenClosed ==
  \A c \in ConnIds : conn[c] # "OPEN" => outbox'[c] = outbox[c]

C16_OneMessageOrNone == []C16_AtMostOne /\ [][C16_NoSendWhenClosed]_vars

\* C16 witness: the connection closed while two pipelines were running;
\* one then finished with a result to send, one with an error, and the
\* connection carries no message.
C16_Witness ==
  /\ Len(chunks) = 2 /\ Done(1) /\ Done(2)
  /\ chunks[1].conn = chunks[2].conn /\ ~StillOpen(1)
  /\ chunks[1].stt = "ok" /\ chunks[1].translation \in {"none", "ok"}
  /\ chunks[2].stt = "failed"
  /\ outbox[chunks[1].conn] = <<>>

\* C17: a message is written to a connection only by the step that
\* finishes a pipeline of that connection, it is that pipeline's message
\* and it goes after everything written before: the order of the messages
\* is the order in which the pipelines finished.
C17_EmitAtCompletion ==
  \A c \in ConnIds :
    outbox'[c] # outbox[c] =>
      \E i \in 1..Len(chunks) :
        /\ chunks[i].conn = c /\ ~Done(i) /\ chunks'[i].pc = "done"
        /\ Len(outbox'[c]) = Len(outbox[c]) + 1
        /\ outbox'[c] = Append(outbox[c], outbox'[c][Len(outbox'[c])])
        /\ outbox'[c][Len(outbox'[c])].chunk = i

C17_CompletionOrder == [][C17_EmitAtCompletion]_vars

\* C17 witness: the second chunk to arrive has its result on the
\* connection before the result of the first, whose translation took
\* longer.
C17_Witness ==
  \E c \in ConnIds :
    /\ Len(outbox[c]) = 2
    /\ outbox[c][1].chunk = 2 /\ outbox[c][1].type = "transcription_result"
    /\ outbox[c][2].chunk = 1 /\ outbox[c][2].type = "transcription_result"
    /\ chunks[1].translation = "ok"

\* C19: the session that createSession stores and returns has status
\* 'active', or the status its caller supplied; a caller that supplies
\* none gets 'active'.
C19_CreatedActive ==
  [][\A id \in DOMAIN sessions' \ DOMAIN sessions :
       /\ resp'.body = <<sessions'[id]>>
       /\ sessions'[id].status \in {"active"} \cup (StatusInputs \ {""})]_vars

\* the translation service was called for chunk i
Invoked(i) == chunks[i].translation # "none"

Transcribed(i) == chunks[i].stt = "ok"

UntranslatedResult(i) ==
  \A k \in 1..Len(SentFor(i)) :
    SentFor(i)[k].type = "transcription_result" => SentFor(i)[k].translatedText = ""

\* the source language with "auto", or none, read as the default language
ResolvedSource(data) ==
  IF data.language \in {"", "auto"} THEN "english" ELSE data.language

\* the source language as the message carries it, none read as the default
SourceAsSent(data) ==
  IF data.language = "" THEN "english" ELSE data.language

\* C20 as stated: for a transcribed chunk that names a target language, the
\* translation service is called exactly when the target differs from the
\* source, "auto" being read as the default language; a chunk translated
\* by nobody has an empty translatedText.
C20_TranslateIffDiffersResolved ==
  \A i \in 1..Len(chunks) :
    (Transcribed(i) /\ chunks[i].data.targetLanguage # "") =>
       /\ Invoked(i) <=> chunks[i].data.targetLanguage # ResolvedSource(chunks[i].data)
       /\ ~Invoked(i) => UntranslatedResult(i)

\* C20 amended: for a transcribed chunk, the translation service is called
\* exactly when the message names a target language and that name differs
\* from the source language as sent ("auto" included, a missing source
\* read as 'english'); a chunk translated by nobody has an empty
\* translatedText.
C20_TranslateIffDiffersAsSent ==
  \A i \in 1..Len(chunks) :
    Transcribed(i) =>
       /\ Invoked(i) <=> /\ chunks[i].data.targetLanguage # ""
                         /\ chunks[i].data.targetLanguage # SourceAsSent(chunks[i].data)
       /\ ~Invoked(i) => UntranslatedResult(i)

\* C20 witness: a chunk from "auto" to english was translated and its
\* result carries the translation.
C20_Witness ==
  \E i \in 1..Len(chunks) :
    /\ chunks[i].data.language = "auto" /\ chunks[i].data.targetLanguage = "english"
    /\ Done(i) /\ chunks[i].translation = "ok"
    /\ Len(SentFor(i)) = 1 /\ SentFor(i)[1].translatedText = "hola"

\* a time in ms written HH:MM:SS,mmm
TimeCode(ms) ==
  padStart(NumberToString(ms \div 3600000), 2) \o <<":">> \o
  padStart(NumberToString((ms \div 60000) % 60), 2) \o <<":">> \o
  padStart(NumberToString((ms \div 1000) % 60), 2) \o <<",">> \o
  padStart(NumberToString(ms % 1000), 3)

\* C18: an SRT export has one block per entry of the session, numbered
\* 1..n in timestamp order; the start of a block is its entry's timestamp
\* written HH:MM:SS,mmm and its end is that timestamp plus 3000 ms.
C18_SrtBlocks ==
  resp.op = "export_srt" =>
    LET es == getSessionEntries(entries, resp.id)
    IN /\ Len(resp.body) = Cardinality(OfSession(resp.id))
       /\ Ascending(es)
       /\ \A k \in 1..Len(resp.body) :
            /\ resp.body[k].index = k
            /\ resp.body[k].start = TimeCode(es[k].timestamp)
            /\ resp.body[k].end = TimeCode(es[k].timestamp + 3000)

\* the sockets whose close event reported a code other than 1000
AbnormalClosures ==
  {i \in 1..Len(socks) : socks[i].rs = "CLOSED" /\ socks[i].code[1] # NormalClosure}

ByTimer == {i \in 1..Len(socks) : socks[i].byTimer}

\* C11: with auto-reconnect on, there is one reconnect timer per abnormal
\* closure and none for a normal one.
C11_OneTimerPerAbnormalClosure ==
  autoReconnect => Len(timers) = Cardinality(AbnormalClosures)

\* C11: the reconnect is not made by the close handler but by the timer: a
\* step that delivers a close event creates no socket, a socket of a
\* reconnect appears only in the step in which a pending timer fires, and
\* a timer that has fired or was cancelled never acts again.
C11_AttemptByTimerOnly ==
  /\ (\E i \in 1..Len(socks) : socks[i].rs # "CLOSED" /\ socks'[i].rs = "CLOSED")
        => Len(socks') = Len(socks)
  /\ ByTimer' # ByTimer =>
        /\ Cardinality(ByTimer') = Cardinality(ByTimer) + 1
        /\ \E t \in 1..Len(timers) : timers[t] = "pending" /\ timers'[t] = "fired"
  /\ \A t \in 1..Len(timers) : timers[t] # "pending" => timers'[t] = timers[t]

C11_ReconnectOncePerAbnormalClosure ==
  []C11_OneTimerPerAbnormalClosure /\ [][C11_AttemptByTimerOnly]_vars

\* C11 witness: the first socket was lost (1006), its timer fired and made
\* the second socket, which the server then closed normally (1000): no
\* second timer.
C11_Witness ==
  /\ autoReconnect /\ Len(socks) = 2
  /\ socks[1].rs = "CLOSED" /\ socks[1].code = Some(1006)
  /\ socks[2].byTimer /\ socks[2].rs = "CLOSED" /\ socks[2].code = Some(NormalClosure)
  /\ timers = <<"fired">>

\* C13: every promise returned by connect() is settled at some time,
\* whether its call created the socket or found an attempt in progress.
C13_ConnectSettles ==
  \A p \in 1..MaxPromises :
    (p <= Len(promises)) ~> (p <= Len(promises) /\ promises[p].state # "pending")

\* C14: a frame is only ever handed to a socket that is open, so send
\* cannot throw.
C14_SentOnOpenSocket ==
  \A k \in 1..Len(sent) : socks[sent[k].sock].rs # "CONNECTING"

\* C14: a sendMessage call leaves the channel's state as it is; with no
\* open socket nothing is transmitted, and with the channel's socket open
\* the message is transmitted on it, once.
C14_SendStep ==
  sendCalls' # sendCalls =>
    /\ UNCHANGED channelVars
    /\ (\A i \in 1..Len(socks) : socks[i].rs # "OPEN") => sent' = sent
    /\ (wsRef # 0 /\ socks[wsRef].rs = "OPEN") =>
          /\ Len(sent') = Len(sent) + 1
          /\ sent' = Append(sent, sent'[Len(sent')])
          /\ sent'[Len(sent')].sock = wsRef
          /\ JSONparse(sent'[Len(sent')].data) \in {Some(m) : m \in OutMessages}

RECURSIVE Decoded(_)
Decoded(fs) ==
  IF fs = <<>> THEN <<>>
  ELSE (IF JSONparse(Head(fs)) = None THEN <<>> ELSE <<JSONparse(Head(fs))[1]>>)
       \o Decoded(Tail(fs))

\* C15: the messages passed to onMessage are the decoded values of the
\* frames received that decode as JSON, each once, in the order received.
C15_DeliveredInOrder == delivered = Decoded(received)

\* C15 witness: a frame that is not JSON came between two that are; the
\* two were delivered.
C15_Witness ==
  /\ Len(received) = 3 /\ JSONparse(received[2]) = None
  /\ delivered = <<[type |-> "transcription_result"], [type |-> "error"]>>

\* chunk i went through transcription and, when asked for, translation
Succeeded(i) ==
  Done(i) /\ chunks[i].stt = "ok" /\ chunks[i].translation \in {"none", "ok"}

Results(i) == SelectSeq(SentFor(i), LAMBDA m : m.type = "transcription_result")

\* C22: for a chunk whose message carries a timestamp, 0 included, the
\* result sent and the entry stored carry that timestamp.
C22_MessageTimestampKept ==
  \A i \in 1..Len(chunks) :
    (Succeeded(i) /\ chunks[i].data.timestamp # None) =>
       /\ \A k \in 1..Len(Results(i)) :
            Results(i)[k].timestamp = chunks[i].data.timestamp[1]
       /\ chunks[i].data.sessionId # "" =>
            \A j \in 1..Len(entries) : entries[j].timestamp = chunks[i].data.timestamp[1]

\* C25: when a transcription_result is on the connection for a chunk that
\* named a session, the store holds the chunk's entry and the session's
\* list returns it; a session has at least as many entries as results were
\* sent for it.
ResultSentFor(id) ==
  {i \in 1..Len(chunks) : chunks[i].data.sessionId = id /\ Results(i) # <<>>}

C25_StoredBeforeSent ==
  \A id \in KnownKeys :
    /\ Cardinality(OfSession(id)) >= Cardinality(ResultSentFor(id))
    /\ \A i \in ResultSentFor(id) :
         \E k \in 1..Len(getSessionEntries(entries, id)) :
           LET e == getSessionEntries(entries, id)[k]
           IN /\ e.originalText = Results(i)[1].originalText
              /\ e.translatedText = OrNull(Results(i)[1].translatedText)

\* C25 witness: two results were sent for the first session and its list
\* has two entries.
C25_Witness ==
  /\ Cardinality(ResultSentFor(UUID(1))) = 2
  /\ Len(getSessionEntries(entries, UUID(1))) = 2

\* C26: the step that ends a pipeline in failure changes no entry, and a
\* chunk with an 'error' on the connection has no transcription_result.
C26_FailureStep ==
  \A i \in 1..Len(chunks) :
    (~Done(i) /\ chunks'[i].pc = "done" /\
       (chunks'[i].stt = "failed" \/ chunks'[i].translation = "failed"))
      => entries' = entries

C26_ErrorExcludesResult ==
  \A i \in 1..Len(chunks) :
    (\E k \in 1..Len(SentFor(i)) : SentFor(i)[k].type = "error") => Results(i) = <<>>

C26_FailureLeavesStore == []C26_ErrorExcludesResult /\ [][C26_FailureStep]_vars

\* C26 witness: a chunk that named a session failed in translation after
\* its transcription, got an 'error', and the store is empty.
C26_Witness ==
  \E i \in 1..Len(chunks) :
    /\ Done(i) /\ chunks[i].stt = "ok" /\ chunks[i].translation = "failed"
    /\ chunks[i].data.sessionId # ""
    /\ SentFor(i) = <<ErrorMsg(i)>>
    /\ entries = <<>>

\* C27: for a chunk that named a session and succeeded, the result sent
\* carries the timestamp of the entry stored.
C27_SameTimestamp ==
  \A i \in 1..Len(chunks) :
    (Succeeded(i) /\ chunks[i].data.sessionId # "") =>
       \A k \in 1..Len(Results(i)), j \in 1..Len(entries) :
         Results(i)[k].timestamp = entries[j].timestamp

\* String.prototype.trim on the texts of the model
Trim(str) == IF str \in {"", " "} THEN "" ELSE str

\* C23: every entry in the store has an originalText that is not empty
\* after trimming.
C23_OriginalTextNonEmpty ==
  \A j \in 1..Len(entries) : Trim(entries[j].originalText) # ""

\* C30: every entry stored by the streaming handler has confidence 90, an
\* integer within 0..100, whatever duration the engine's answer carries.
C30_ConfidenceIs90 ==
  \A j \in 1..Len(entries) :
    /\ entries[j].confidence = Some(90)
    /\ entries[j].confidence[1] \in 0..100

\* C30 witness: the engine's answer carried a duration of 2 s and the
\* chunk's entry was stored.
C30_Witness ==
  \E i \in 1..Len(chunks) :
    /\ Succeeded(i) /\ chunks[i].apiDuration = Some(2)
    /\ chunks[i].data.sessionId # ""
    /\ Len(entries) = 1 /\ entries[1].confidence = Some(90)

\* C29: a stored session's id is the key it is stored under.
C29_IdIsKey == \A k \in DOMAIN sessions : sessions[k].id = k

\* C29: no step changes a stored session's createdAt, and a PATCH answered
\* with not-found leaves the set of sessions as it was.
C29_PatchStep ==
  /\ \A k \in DOMAIN sessions :
       k \in DOMAIN sessions' /\ sessions'[k].createdAt = sessions[k].createdAt
  /\ (resp'.op = "patch_session" /\ resp'.code = 404) => DOMAIN sessions' = DOMAIN sessions

C29_IdAndCreatedAtKept == []C29_IdIsKey /\ [][C29_PatchStep]_vars

\* C24: while the socket created last is CONNECTING or OPEN, the channel's
\* reference designates it, and while it is OPEN the connected flag is set.
C24_RefIsNewestSocket ==
  Len(socks) > 0 =>
    LET n == Len(socks)
    IN /\ socks[n].rs \in {"CONNECTING", "OPEN"} => wsRef = n
       /\ socks[n].rs = "OPEN" => isConnected

\* the sockets that are CONNECTING or OPEN and have no close event queued
LiveSockets ==
  {i \in 1..Len(socks) : socks[i].rs \in {"CONNECTING", "OPEN"} /\ socks[i].code = None}

\* C28: at most one socket of the channel is CONNECTING or OPEN.
C28_OneLiveSocket == Cardinality(LiveSockets) <= 1

\* C21: a chunk received after the first is done at some time, whatever
\* the first chunk's calls do, also if they never return.
C21_LaterChunksFinish ==
  \A i \in 2..MaxChunks : (i <= Len(chunks)) ~> (i <= Len(chunks) /\ Done(i))

\* C21: a chunk that is done and succeeded on a connection still open has
\* its result on that connection.
C21_FinishedIsEmitted ==
  \A i \in 1..Len(chunks) : (Succeeded(i) /\ StillOpen(i)) => Len(Results(i)) = 1

C21_NoHeadOfLineBlocking == C21_LaterChunksFinish /\ []C21_FinishedIsEmitted

\* C21 witness: the first chunk is still waiting for its transcription
\* while a chunk received later, on the other connection, has its result.
C21_Witness ==
  /\ Len(chunks) = 2 /\ chunks[1].pc = "transcribing"
  /\ chunks[2].conn # chunks[1].conn
  /\ Len(Results(2)) = 1

====
